---- MODULE Spec2Model ----
(***************************************************************************)
(* Early stopping, per-trial checkpointing and best-trial selection of the  *)
(* hyperparameter search in optimization_old.py.                            *)
(*                                                                          *)
(* Losses are Python floats.  The code only compares them and subtracts     *)
(* delta from them, so a loss is modelled as an integer; the two special    *)
(* floats the program produces (float('inf'), NaN) and Python's None are    *)
(* integers outside the range of every modelled loss, and the comparison    *)
(* operators below give them their IEEE/Python meaning.                     *)
(***************************************************************************)
EXTENDS Integers, Sequences, FiniteSets

VARIABLES
    pc,                     \* position of the running code
    early_stopping,         \* the EarlyStopping object (its five attributes)
    calls,                  \* history: the losses passed to early_stopping so far
    trial_number,           \* trial.number of the current trial
    epoch,                  \* loop variable of objective's epoch loop
    best_trial_loss,        \* objective's local best_trial_loss
    user_attrs,             \* trial.user_attrs of the current trial
    val_losses,             \* history: val_loss of each executed epoch of this trial
    saves,                  \* history: the epochs (1-based) at which torch.save ran
    best_validation_loss,   \* module global
    best_model_path,        \* module global
    study_user_attrs,       \* study.user_attrs["best_model_path"]
    considered,             \* history: the trials the callback has compared
    printed,                \* history: trial numbers of the "New best model" prints
    loaded_model,           \* the checkpoint __main__ finally loads and evaluates
    y_true,                 \* labels handed to the metric functions
    y_pred,                 \* scores handed to the metric functions
    metrics,                \* what calculate_metrics / calculate_metrics_4 returned
    eer,                    \* what calculate_eer(y_true, y_pred) returned or raised
    y_transformed,          \* y_pred under a transform of the scores
    eer_transformed         \* what calculate_eer(y_true, y_transformed) returned

vars == <<pc, early_stopping, calls, trial_number, epoch, best_trial_loss,
          user_attrs, val_losses, saves, best_validation_loss, best_model_path,
          study_user_attrs, considered, printed, loaded_model,
          y_true, y_pred, metrics, eer, y_transformed, eer_transformed>>

monitorVars == <<early_stopping, calls>>
trialVars == <<trial_number, epoch, best_trial_loss, user_attrs, val_losses, saves>>
studyVars == <<best_validation_loss, best_model_path, study_user_attrs, considered,
               printed, loaded_model>>
metricVars == <<y_true, y_pred, metrics, eer, y_transformed, eer_transformed>>

----------------------------------------------------------------------------
(* Bounds of the model *)

MaxLoss == 3
MaxDelta == 2
MaxPatience == 3
MaxCalls == 5
MaxValLoss == 2         \* validation losses of the search are 1..MaxValLoss, or NaN
MaxTrialLoss == 5       \* trial losses handed to the callback on its own
MaxCallbacks == 4       \* calls of the callback on its own
EPOCHS == 6             \* constants.py has 100; scaled down, still > PATIENCE + 1
TRIALS == 3             \* constants.py has 15; scaled down
MaxLen == 4             \* samples handed to the metric functions
MaxTransformLen == 3    \* samples of the inputs whose scores are transformed
MaxScore == 3           \* scores are 0..MaxScore, in halves: 0, 0.5, 1, 1.5

(* Program constants *)

PATIENCE == 4
InitialBestValidationLoss == 1000000
Threshold == 1          \* the 0.5 of y_pred > 0.5, in halves

(* Python values *)

None == -3000000
NaN == -2000000
Inf == 2000000

Losses == 0..MaxLoss
Deltas == -1..MaxDelta
Patiences == 1..MaxPatience

\* a > b on floats: false as soon as one side is NaN
FloatGT(a, b) == a # NaN /\ b # NaN /\ a > b
\* a <= b on floats
FloatLE(a, b) == a # NaN /\ b # NaN /\ a <= b
\* a < b on floats
FloatLT(a, b) == a # NaN /\ b # NaN /\ a < b
\* a - d on floats, d finite
FloatSub(a, d) == IF a = NaN \/ a = Inf THEN a ELSE a - d

\* no metric function has been called
NotCalled == [status |-> "none"]

NoMetrics ==
    /\ y_true = <<>>
    /\ y_pred = <<>>
    /\ metrics = NotCalled
    /\ eer = NotCalled
    /\ y_transformed = <<>>
    /\ eer_transformed = NotCalled

----------------------------------------------------------------------------
(* class EarlyStopping *)

EarlyStopping(p, d) ==
    [patience |-> p, delta |-> d, best_loss |-> None, counter |-> 0,
     early_stop |-> FALSE]

\* Variants of __call__, each with one slip, used to test the properties below.
EarlyStopping__call__GE(self, val_loss) ==
    IF self.best_loss = None
    THEN [self EXCEPT !.best_loss = val_loss]
    ELSE IF ~FloatLT(val_loss, FloatSub(self.best_loss, self.delta))
    THEN [self EXCEPT !.counter = self.counter + 1,
                      !.early_stop = IF self.counter + 1 >= self.patience
                                     THEN TRUE ELSE @]
    ELSE [self EXCEPT !.best_loss = val_loss, !.counter = 0]

EarlyStopping__call__Resurrect(self, val_loss) ==
    IF self.best_loss = None
    THEN [self EXCEPT !.best_loss = val_loss]
    ELSE IF FloatGT(val_loss, FloatSub(self.best_loss, self.delta))
    THEN [self EXCEPT !.counter = self.counter + 1,
                      !.early_stop = IF self.counter + 1 >= self.patience
                                     THEN TRUE ELSE @]
    ELSE [self EXCEPT !.best_loss = val_loss, !.counter = 0, !.early_stop = FALSE]

EarlyStopping__call__PlusDelta(self, val_loss) ==
    IF self.best_loss = None
    THEN [self EXCEPT !.best_loss = val_loss]
    ELSE IF FloatGT(val_loss, FloatSub(self.best_loss, 0 - self.delta))
    THEN [self EXCEPT !.counter = self.counter + 1,
                      !.early_stop = IF self.counter + 1 >= self.patience
                                     THEN TRUE ELSE @]
    ELSE [self EXCEPT !.best_loss = val_loss, !.counter = 0]

EarlyStopping__call__OffByOne(self, val_loss) ==
    IF self.best_loss = None
    THEN [self EXCEPT !.best_loss = val_loss]
    ELSE IF FloatGT(val_loss, FloatSub(self.best_loss, self.delta))
    THEN [self EXCEPT !.counter = self.counter + 1,
                      !.early_stop = IF self.counter + 1 > self.patience
                                     THEN TRUE ELSE @]
    ELSE [self EXCEPT !.best_loss = val_loss, !.counter = 0]

EarlyStopping__call__MaxMode(self, val_loss) ==
    IF self.best_loss = None
    THEN [self EXCEPT !.best_loss = val_loss]
    ELSE IF FloatLT(val_loss, FloatSub(self.best_loss, 0 - self.delta))
    THEN [self EXCEPT !.counter = self.counter + 1,
                      !.early_stop = IF self.counter + 1 >= self.patience
                                     THEN TRUE ELSE @]
    ELSE [self EXCEPT !.best_loss = val_loss, !.counter = 0]

EarlyStopping__call__(self, val_loss) ==
    IF self.best_loss = None
    THEN [self EXCEPT !.best_loss = val_loss]
    ELSE IF FloatGT(val_loss, FloatSub(self.best_loss, self.delta))
    THEN [self EXCEPT !.counter = self.counter + 1,
                      !.early_stop = IF self.counter + 1 >= self.patience
                                     THEN TRUE ELSE @]
    ELSE [self EXCEPT !.best_loss = val_loss, !.counter = 0]

----------------------------------------------------------------------------
(* The monitor on its own: one object, any patience and delta, any calls *)

MonitorInit ==
    /\ pc = "monitor"
    /\ \E p \in Patiences, d \in Deltas : early_stopping = EarlyStopping(p, d)
    /\ calls = <<>>
    /\ trial_number = 0
    /\ epoch = 0
    /\ best_trial_loss = Inf
    /\ user_attrs = [best_model_path |-> None, best_val_loss |-> None]
    /\ val_losses = <<>>
    /\ saves = {}
    /\ best_validation_loss = InitialBestValidationLoss
    /\ best_model_path = None
    /\ study_user_attrs = None
    /\ considered = <<>>
    /\ printed = <<>>
    /\ loaded_model = None
    /\ NoMetrics

MonitorCall(v) ==
    /\ pc = "monitor"
    /\ Len(calls) < MaxCalls
    /\ early_stopping' = EarlyStopping__call__(early_stopping, v)
    /\ calls' = Append(calls, v)
    /\ UNCHANGED <<pc, trialVars, studyVars, metricVars>>

MonitorNext == \E v \in Losses : MonitorCall(v)

MonitorSpec == MonitorInit /\ [][MonitorNext]_vars

----------------------------------------------------------------------------
(* The hyperparameter search: __main__, objective, save_best_model_callback *)

ValLosses == (1..MaxValLoss) \cup {NaN}

\* f"checkpoints/tmp_model_trial_{trial.number}.pth": one path per trial number
TmpModelPath(number) == number

NewTrialUserAttrs == [best_model_path |-> None, best_val_loss |-> None]

Init ==
    /\ pc = "objective"
    /\ early_stopping = EarlyStopping(PATIENCE, 0)
    /\ calls = <<>>
    /\ trial_number = 0
    /\ epoch = 0
    /\ best_trial_loss = Inf
    /\ user_attrs = NewTrialUserAttrs
    /\ val_losses = <<>>
    /\ saves = {}
    /\ best_validation_loss = InitialBestValidationLoss
    /\ best_model_path = None
    /\ study_user_attrs = None
    /\ considered = <<>>
    /\ printed = <<>>
    /\ loaded_model = None
    /\ NoMetrics

\* objective up to the epoch loop, with the monitor of the previous trial kept
ObjectiveSharedMonitor ==
    /\ pc = "objective"
    /\ best_trial_loss' = Inf
    /\ user_attrs' = NewTrialUserAttrs
    /\ UNCHANGED <<early_stopping, calls>>
    /\ epoch' = 0
    /\ val_losses' = <<>>
    /\ saves' = {}
    /\ pc' = IF EPOCHS > 0 THEN "epoch" ELSE "return"
    /\ UNCHANGED <<trial_number, studyVars, metricVars>>

\* objective up to the epoch loop: a new trial, its local best loss, its monitor
Objective ==
    /\ pc = "objective"
    /\ best_trial_loss' = Inf
    /\ user_attrs' = NewTrialUserAttrs
    /\ early_stopping' = EarlyStopping(PATIENCE, 0)
    /\ calls' = <<>>
    /\ epoch' = 0
    /\ val_losses' = <<>>
    /\ saves' = {}
    /\ pc' = IF EPOCHS > 0 THEN "epoch" ELSE "return"
    /\ UNCHANGED <<trial_number, studyVars, metricVars>>

\* the epoch loop without the break on early_stop
EpochNoBreak(val_loss) ==
    LET save == FloatLT(val_loss, best_trial_loss)
        es == EarlyStopping__call__(early_stopping, val_loss)
    IN  /\ pc = "epoch"
        /\ val_losses' = Append(val_losses, val_loss)
        /\ best_trial_loss' = IF save THEN val_loss ELSE best_trial_loss
        /\ user_attrs' = IF save
                         THEN [user_attrs EXCEPT
                                  !.best_model_path = TmpModelPath(trial_number)]
                         ELSE user_attrs
        /\ saves' = IF save THEN saves \cup {epoch + 1} ELSE saves
        /\ early_stopping' = es
        /\ calls' = Append(calls, val_loss)
        /\ IF epoch + 1 >= EPOCHS
           THEN pc' = "return" /\ epoch' = epoch
           ELSE pc' = "epoch" /\ epoch' = epoch + 1
        /\ UNCHANGED <<trial_number, studyVars, metricVars>>

\* one iteration of the epoch loop: training and validation produce val_loss,
\* the checkpoint is saved on a new best, the monitor is called, the loop
\* breaks on early_stop or ends after EPOCHS iterations
Epoch(val_loss) ==
    LET save == FloatLT(val_loss, best_trial_loss)
        es == EarlyStopping__call__(early_stopping, val_loss)
    IN  /\ pc = "epoch"
        /\ val_losses' = Append(val_losses, val_loss)
        /\ best_trial_loss' = IF save THEN val_loss ELSE best_trial_loss
        /\ user_attrs' = IF save
                         THEN [user_attrs EXCEPT
                                  !.best_model_path = TmpModelPath(trial_number)]
                         ELSE user_attrs
        /\ saves' = IF save THEN saves \cup {epoch + 1} ELSE saves
        /\ early_stopping' = es
        /\ calls' = Append(calls, val_loss)
        /\ IF es.early_stop \/ epoch + 1 >= EPOCHS
           THEN pc' = "return" /\ epoch' = epoch
           ELSE pc' = "epoch" /\ epoch' = epoch + 1
        /\ UNCHANGED <<trial_number, studyVars, metricVars>>

\* the end of objective: the trial's best loss is recorded and returned
ObjectiveReturn ==
    /\ pc = "return"
    /\ user_attrs' = [user_attrs EXCEPT !.best_val_loss = best_trial_loss]
    /\ pc' = "callback"
    /\ UNCHANGED <<monitorVars, trial_number, epoch, best_trial_loss, val_losses,
                   saves, studyVars, metricVars>>

TrialOutcome(number, attrs) ==
    [number |-> number, loss |-> attrs.best_val_loss, path |-> attrs.best_model_path]

\* the callback with a trial that has no checkpoint skipped instead of raising
save_best_model_callback_skip(number, attrs, next_pc) ==
    IF attrs.best_model_path = None
    THEN /\ pc' = next_pc
         /\ UNCHANGED studyVars
    ELSE /\ IF FloatLT(attrs.best_val_loss, best_validation_loss)
            THEN /\ best_validation_loss' = attrs.best_val_loss
                 /\ best_model_path' = attrs.best_model_path
                 /\ study_user_attrs' = attrs.best_model_path
                 /\ printed' = Append(printed, number)
            ELSE UNCHANGED <<best_validation_loss, best_model_path,
                             study_user_attrs, printed>>
         /\ considered' = Append(considered, TrialOutcome(number, attrs))
         /\ pc' = next_pc
         /\ UNCHANGED loaded_model

\* the callback replacing the record on a loss that is lower or equal
save_best_model_callback_le(number, attrs, next_pc) ==
    IF attrs.best_model_path = None
    THEN /\ pc' = "error"
         /\ UNCHANGED studyVars
    ELSE /\ IF ~FloatGT(attrs.best_val_loss, best_validation_loss)
            THEN /\ best_validation_loss' = attrs.best_val_loss
                 /\ best_model_path' = attrs.best_model_path
                 /\ study_user_attrs' = attrs.best_model_path
                 /\ printed' = Append(printed, number)
            ELSE UNCHANGED <<best_validation_loss, best_model_path,
                             study_user_attrs, printed>>
         /\ considered' = Append(considered, TrialOutcome(number, attrs))
         /\ pc' = next_pc
         /\ UNCHANGED loaded_model

\* the callback replacing the record of the path but never the recorded loss
save_best_model_callback_stale(number, attrs, next_pc) ==
    IF attrs.best_model_path = None
    THEN /\ pc' = "error"
         /\ UNCHANGED studyVars
    ELSE /\ IF FloatLT(attrs.best_val_loss, best_validation_loss)
            THEN /\ best_model_path' = attrs.best_model_path
                 /\ study_user_attrs' = attrs.best_model_path
                 /\ printed' = Append(printed, number)
                 /\ UNCHANGED best_validation_loss
            ELSE UNCHANGED <<best_validation_loss, best_model_path,
                             study_user_attrs, printed>>
         /\ considered' = Append(considered, TrialOutcome(number, attrs))
         /\ pc' = next_pc
         /\ UNCHANGED loaded_model

\* save_best_model_callback(study, trial): reading user_attrs["best_model_path"]
\* of a trial that never set it raises KeyError, which study.optimize lets
\* through to __main__; otherwise the trial is compared with the global best.
save_best_model_callback(number, attrs, next_pc) ==
    IF attrs.best_model_path = None
    THEN /\ pc' = "error"
         /\ UNCHANGED studyVars
    ELSE /\ IF FloatLT(attrs.best_val_loss, best_validation_loss)
            THEN /\ best_validation_loss' = attrs.best_val_loss
                 /\ best_model_path' = attrs.best_model_path
                 /\ study_user_attrs' = attrs.best_model_path
                 /\ printed' = Append(printed, number)
            ELSE UNCHANGED <<best_validation_loss, best_model_path,
                             study_user_attrs, printed>>
         /\ considered' = Append(considered, TrialOutcome(number, attrs))
         /\ pc' = next_pc
         /\ UNCHANGED loaded_model

\* study.optimize calls the callback after each trial, then starts the next
\* trial or returns to __main__ after TRIALS trials
Callback ==
    /\ pc = "callback"
    /\ save_best_model_callback(trial_number, user_attrs,
           IF trial_number + 1 < TRIALS THEN "objective" ELSE "main")
    /\ trial_number' = IF user_attrs.best_model_path = None
                       THEN trial_number ELSE trial_number + 1
    /\ UNCHANGED <<monitorVars, epoch, best_trial_loss, user_attrs, val_losses, saves,
                   metricVars>>

\* __main__ after study.optimize: the checkpoint named by the study's
\* best_model_path attribute is loaded and evaluated on the test set
MainEvaluate ==
    /\ pc = "main"
    /\ IF study_user_attrs = None
       THEN pc' = "error" /\ UNCHANGED loaded_model
       ELSE pc' = "done" /\ loaded_model' = study_user_attrs
    /\ UNCHANGED <<monitorVars, trialVars, best_validation_loss, best_model_path,
                   study_user_attrs, considered, printed, metricVars>>

Next ==
    \/ Objective
    \/ \E v \in ValLosses : Epoch(v)
    \/ ObjectiveReturn
    \/ Callback
    \/ MainEvaluate

Spec == Init /\ [][Next]_vars

\* one call of objective, from its entry to its return; the call runs
\* sequentially: a step that can be taken is taken
ObjectiveNext ==
    \/ Objective
    \/ \E v \in ValLosses : Epoch(v)
    \/ ObjectiveReturn

ObjectiveSpec == Init /\ [][ObjectiveNext]_vars /\ WF_vars(ObjectiveNext)

----------------------------------------------------------------------------
(* The callback on its own: any sequence of trials the search can produce *)

TrialLosses == 1..MaxTrialLoss

CallbackInit ==
    /\ pc = "select"
    /\ early_stopping = EarlyStopping(PATIENCE, 0)
    /\ calls = <<>>
    /\ trial_number = 0
    /\ epoch = 0
    /\ best_trial_loss = Inf
    /\ user_attrs = NewTrialUserAttrs
    /\ val_losses = <<>>
    /\ saves = {}
    /\ best_validation_loss = InitialBestValidationLoss
    /\ best_model_path = None
    /\ study_user_attrs = None
    /\ considered = <<>>
    /\ printed = <<>>
    /\ loaded_model = None
    /\ NoMetrics

\* a trial that saved a checkpoint has a finite best loss; one that never did
\* still has best_trial_loss = inf and no best_model_path
CompletedTrials(number) ==
    {[best_model_path |-> TmpModelPath(number), best_val_loss |-> l] : l \in TrialLosses}
        \cup {[best_model_path |-> None, best_val_loss |-> Inf]}

CallbackCall(attrs) ==
    /\ pc = "select"
    /\ trial_number < MaxCallbacks
    /\ user_attrs' = attrs
    /\ save_best_model_callback(trial_number, attrs, "select")
    /\ trial_number' = trial_number + 1
    /\ UNCHANGED <<monitorVars, epoch, best_trial_loss, val_losses, saves, metricVars>>

CallbackNext == \E attrs \in CompletedTrials(trial_number) : CallbackCall(attrs)

CallbackSpec == CallbackInit /\ [][CallbackNext]_vars

----------------------------------------------------------------------------
(* data_methods.py: calculate_metrics, calculate_metrics_4, calculate_eer,    *)
(* with the scikit-learn and numpy functions they call.  A rate is kept as   *)
(* an exact fraction num/den.                                                *)

Labels == {0, 1}
Scores == 0..MaxScore

Frac(n, d) == [num |-> n, den |-> d]
FracEq(a, b) == a.num * b.den = b.num * a.den
Abs(x) == IF x < 0 THEN 0 - x ELSE x

TP(t, p) == Cardinality({i \in DOMAIN t : t[i] = 1 /\ p[i] = 1})
FP(t, p) == Cardinality({i \in DOMAIN t : t[i] = 0 /\ p[i] = 1})
FN(t, p) == Cardinality({i \in DOMAIN t : t[i] = 1 /\ p[i] = 0})

\* (y_pred >= 0.5).astype(int): the threshold taken inclusive
BinarizeInclusive(scores) == [i \in DOMAIN scores |-> IF scores[i] >= Threshold THEN 1 ELSE 0]

\* (y_pred > 0.5).astype(int)
Binarize(scores) == [i \in DOMAIN scores |-> IF scores[i] > Threshold THEN 1 ELSE 0]

\* sklearn.metrics.accuracy_score: the share of samples whose label matches
accuracy_score(t, p) == Frac(Cardinality({i \in DOMAIN t : t[i] = p[i]}), Len(t))

\* precision_score with zero_division=np.nan: NaN where the denominator is zero
precision_score_nan(t, p) ==
    IF TP(t, p) + FP(t, p) = 0 THEN Frac(NaN, 1)
    ELSE Frac(TP(t, p), TP(t, p) + FP(t, p))

\* sklearn.metrics.precision_score, average="binary", zero_division="warn":
\* with no positive prediction it warns and returns 0.0
precision_score(t, p) ==
    IF TP(t, p) + FP(t, p) = 0 THEN Frac(0, 1)
    ELSE Frac(TP(t, p), TP(t, p) + FP(t, p))

\* sklearn.metrics.recall_score: with no positive label it warns and returns 0.0
recall_score(t, p) ==
    IF TP(t, p) + FN(t, p) = 0 THEN Frac(0, 1)
    ELSE Frac(TP(t, p), TP(t, p) + FN(t, p))

\* sklearn.metrics.f1_score: 2TP / (2TP + FP + FN), 0.0 when that is 0/0
f1_score(t, p) ==
    IF 2 * TP(t, p) + FP(t, p) + FN(t, p) = 0 THEN Frac(0, 1)
    ELSE Frac(2 * TP(t, p), 2 * TP(t, p) + FP(t, p) + FN(t, p))

calculate_metrics(t, scores) ==
    LET y_pred_labels == Binarize(scores)
    IN  [status |-> "ok", fn |-> "calculate_metrics",
         accuracy |-> accuracy_score(t, y_pred_labels),
         recall |-> recall_score(t, y_pred_labels),
         f1_score |-> f1_score(t, y_pred_labels)]

calculate_metrics_4(t, scores) ==
    LET y_pred_labels == Binarize(scores)
    IN  [status |-> "ok", fn |-> "calculate_metrics_4",
         accuracy |-> accuracy_score(t, y_pred_labels),
         recall |-> recall_score(t, y_pred_labels),
         f1_score |-> f1_score(t, y_pred_labels),
         precision |-> precision_score(t, y_pred_labels)]

\* the distinct values of a set of scores, highest first
RECURSIVE Descending(_)
Descending(S) ==
    IF S = {} THEN <<>>
    ELSE LET m == CHOOSE x \in S : \A y \in S : y <= x
         IN  <<m>> \o Descending(S \ {m})

\* sklearn's _binary_clf_curve: for each distinct score, highest first, the
\* false and true positives among the samples scoring at least that much
binary_clf_curve(t, scores) ==
    LET thresholds == Descending({scores[i] : i \in DOMAIN scores})
    IN  [k \in 1..Len(thresholds) |->
            [fps |-> Cardinality({i \in DOMAIN t :
                                    scores[i] >= thresholds[k] /\ t[i] = 0}),
             tps |-> Cardinality({i \in DOMAIN t :
                                    scores[i] >= thresholds[k] /\ t[i] = 1}),
             threshold |-> thresholds[k]]]

RECURSIVE OptimalFrom(_, _)
OptimalFrom(c, k) ==
    IF k > Len(c) THEN <<>>
    ELSE LET keep ==
                 \/ k = 1
                 \/ k = Len(c)
                 \/ c[k + 1].fps - 2 * c[k].fps + c[k - 1].fps # 0
                 \/ c[k + 1].tps - 2 * c[k].tps + c[k - 1].tps # 0
         IN  (IF keep THEN <<c[k]>> ELSE <<>>) \o OptimalFrom(c, k + 1)

\* roc_curve's drop_intermediate=True: of more than two points, those lying
\* between two neighbours on a straight line are dropped
drop_intermediate(c) == IF Len(c) > 2 THEN OptimalFrom(c, 1) ELSE c

\* sklearn.metrics.roc_curve(y_true, y_score): the kept points after a first
\* point (0, 0) of threshold inf; fpr = fps / N, tpr = tps / P
roc_curve(t, scores) ==
    LET c == drop_intermediate(binary_clf_curve(t, scores))
        points == <<[fps |-> 0, tps |-> 0, threshold |-> Inf]>> \o c
    IN  [points |-> points, N |-> points[Len(points)].fps, P |-> points[Len(points)].tps]

\* |fnr - fpr| at point k, times P * N
GapTimesPN(r, k) == Abs(r.P * r.N - r.points[k].tps * r.N - r.points[k].fps * r.P)

\* calculate_eer handed the binarized predictions instead of the scores
calculate_eer_binarized(t, scores) ==
    IF Len(t) = 0 THEN [status |-> "ValueError"]
    ELSE LET r == roc_curve(t, Binarize(scores))
         IN  IF r.P = 0 \/ r.N = 0 THEN [status |-> "ValueError"]
             ELSE LET index == CHOOSE k \in 1..Len(r.points) :
                                  /\ \A j \in 1..Len(r.points) :
                                         GapTimesPN(r, k) <= GapTimesPN(r, j)
                                  /\ \A j \in 1..(k - 1) :
                                         GapTimesPN(r, k) < GapTimesPN(r, j)
                  IN  [status |-> "ok",
                       eer |-> Frac(r.points[index].fps * r.P
                                       + (r.P - r.points[index].tps) * r.N,
                                    2 * r.P * r.N),
                       eer_threshold_index |-> index,
                       points |-> r.points, P |-> r.P, N |-> r.N]

\* calculate_eer taking the last index of the minimal gap
calculate_eer_last(t, scores) ==
    IF Len(t) = 0 THEN [status |-> "ValueError"]
    ELSE LET r == roc_curve(t, scores)
         IN  IF r.P = 0 \/ r.N = 0 THEN [status |-> "ValueError"]
             ELSE LET index == CHOOSE k \in 1..Len(r.points) :
                                  /\ \A j \in 1..Len(r.points) :
                                         GapTimesPN(r, k) <= GapTimesPN(r, j)
                                  /\ \A j \in (k + 1)..Len(r.points) :
                                         GapTimesPN(r, k) < GapTimesPN(r, j)
                  IN  [status |-> "ok",
                       eer |-> Frac(r.points[index].fps * r.P
                                       + (r.P - r.points[index].tps) * r.N,
                                    2 * r.P * r.N),
                       eer_threshold_index |-> index,
                       points |-> r.points, P |-> r.P, N |-> r.N]

\* calculate_eer returning NaN where roc_curve's rates are NaN
calculate_eer_nan(t, scores) ==
    IF Len(t) = 0 THEN [status |-> "ok", eer |-> Frac(NaN, 1)]
    ELSE LET r == roc_curve(t, scores)
         IN  IF r.P = 0 \/ r.N = 0 THEN [status |-> "ok", eer |-> Frac(NaN, 1)]
             ELSE LET index == CHOOSE k \in 1..Len(r.points) :
                                  /\ \A j \in 1..Len(r.points) :
                                         GapTimesPN(r, k) <= GapTimesPN(r, j)
                                  /\ \A j \in 1..(k - 1) :
                                         GapTimesPN(r, k) < GapTimesPN(r, j)
                  IN  [status |-> "ok",
                       eer |-> Frac(r.points[index].fps * r.P
                                       + (r.P - r.points[index].tps) * r.N,
                                    2 * r.P * r.N),
                       eer_threshold_index |-> index,
                       points |-> r.points, P |-> r.P, N |-> r.N]

\* calculate_eer(y_true, y_pred).  roc_curve raises ValueError on empty input;
\* with one class only it returns NaN rates, and np.nanargmin raises ValueError
\* on the all-NaN gaps.  Otherwise the first index of the minimal gap is taken
\* (indices count from 1 here) and eer = (fpr + fnr) / 2 there.
calculate_eer(t, scores) ==
    IF Len(t) = 0 THEN [status |-> "ValueError"]
    ELSE LET r == roc_curve(t, scores)
         IN  IF r.P = 0 \/ r.N = 0 THEN [status |-> "ValueError"]
             ELSE LET index == CHOOSE k \in 1..Len(r.points) :
                                  /\ \A j \in 1..Len(r.points) :
                                         GapTimesPN(r, k) <= GapTimesPN(r, j)
                                  /\ \A j \in 1..(k - 1) :
                                         GapTimesPN(r, k) < GapTimesPN(r, j)
                  IN  [status |-> "ok",
                       eer |-> Frac(r.points[index].fps * r.P
                                       + (r.P - r.points[index].tps) * r.N,
                                    2 * r.P * r.N),
                       eer_threshold_index |-> index,
                       points |-> r.points, P |-> r.P, N |-> r.N]

MetricsInit ==
    /\ pc = "metrics"
    /\ early_stopping = EarlyStopping(PATIENCE, 0)
    /\ calls = <<>>
    /\ trial_number = 0
    /\ epoch = 0
    /\ best_trial_loss = Inf
    /\ user_attrs = NewTrialUserAttrs
    /\ val_losses = <<>>
    /\ saves = {}
    /\ best_validation_loss = InitialBestValidationLoss
    /\ best_model_path = None
    /\ study_user_attrs = None
    /\ considered = <<>>
    /\ printed = <<>>
    /\ loaded_model = None
    /\ \E n \in 0..MaxLen :
           /\ y_true \in [1..n -> Labels]
           /\ y_pred \in [1..n -> Scores]
    /\ metrics = NotCalled
    /\ eer = NotCalled
    /\ y_transformed = <<>>
    /\ eer_transformed = NotCalled

\* objective, line 118: the three metrics of an epoch's validation pass
CalculateMetrics ==
    /\ pc = "metrics"
    /\ Len(y_true) > 0
    /\ metrics' = calculate_metrics(y_true, y_pred)
    /\ pc' = "scored"
    /\ UNCHANGED <<monitorVars, trialVars, studyVars, y_true, y_pred, eer,
                   y_transformed, eer_transformed>>

\* evaluate_on_test, line 43: the four metrics of the test pass
CalculateMetrics4 ==
    /\ pc = "metrics"
    /\ Len(y_true) > 0
    /\ metrics' = calculate_metrics_4(y_true, y_pred)
    /\ pc' = "eer"
    /\ UNCHANGED <<monitorVars, trialVars, studyVars, y_true, y_pred, eer,
                   y_transformed, eer_transformed>>

\* evaluate_on_test, line 46: the EER of the same labels and scores
CalculateEER ==
    /\ pc \in {"metrics", "eer"}
    /\ eer' = calculate_eer(y_true, y_pred)
    /\ pc' = IF eer'.status = "ok" THEN "evaluated" ELSE "error"
    /\ UNCHANGED <<monitorVars, trialVars, studyVars, y_true, y_pred, metrics,
                   y_transformed, eer_transformed>>

MetricsNext == CalculateMetrics \/ CalculateMetrics4 \/ CalculateEER

MetricsSpec == MetricsInit /\ [][MetricsNext]_vars

----------------------------------------------------------------------------
(* calculate_eer on scores and on the same scores under a strictly monotonic  *)
(* transform                                                                 *)

\* the strictly increasing maps of the scores with steps of 1 or 2, and their
\* negations, which are strictly decreasing
RECURSIVE SumUpTo(_, _)
SumUpTo(g, x) == IF x < 0 THEN 0 ELSE g[x] + SumUpTo(g, x - 1)

Transforms ==
    {[x \in Scores |-> sign * SumUpTo(g, x)] : g \in [Scores -> 1..2], sign \in {1, -1}}

TransformInit ==
    /\ pc = "scores"
    /\ early_stopping = EarlyStopping(PATIENCE, 0)
    /\ calls = <<>>
    /\ trial_number = 0
    /\ epoch = 0
    /\ best_trial_loss = Inf
    /\ user_attrs = NewTrialUserAttrs
    /\ val_losses = <<>>
    /\ saves = {}
    /\ best_validation_loss = InitialBestValidationLoss
    /\ best_model_path = None
    /\ study_user_attrs = None
    /\ considered = <<>>
    /\ printed = <<>>
    /\ loaded_model = None
    /\ \E n \in 0..MaxTransformLen :
           /\ y_true \in [1..n -> Labels]
           /\ y_pred \in [1..n -> Scores]
    /\ metrics = NotCalled
    /\ eer = NotCalled
    /\ y_transformed = <<>>
    /\ eer_transformed = NotCalled

\* calculate_eer on the scores and on their images under f
ApplyTransform(f) ==
    /\ pc = "scores"
    /\ y_transformed' = [i \in DOMAIN y_pred |-> f[y_pred[i]]]
    /\ eer' = calculate_eer(y_true, y_pred)
    /\ eer_transformed' = calculate_eer(y_true, y_transformed')
    /\ pc' = "transformed"
    /\ UNCHANGED <<monitorVars, trialVars, studyVars, y_true, y_pred, metrics>>

TransformNext == \E f \in Transforms : ApplyTransform(f)

TransformSpec == TransformInit /\ [][TransformNext]_vars

----------------------------------------------------------------------------
(* Properties of the monitor, checked under MonitorSpec *)

\* a call of the monitor happened in this step, with this loss
Called == calls' # calls
LastLoss == calls'[Len(calls')]

\* The three-case rule of the monitor as the specification words it, on
\* numbers: the monitor after it is called with v in state s.
RuleHolds(s, v, t) ==
    /\ t.patience = s.patience
    /\ t.delta = s.delta
    /\ IF s.best_loss = None
       THEN t.best_loss = v /\ t.counter = 0 /\ ~t.early_stop
       ELSE IF v > s.best_loss - s.delta
       THEN /\ t.counter = s.counter + 1
            /\ t.best_loss = s.best_loss
            /\ (t.early_stop <=> t.counter >= s.patience)
       ELSE t.best_loss = v /\ t.counter = 0 /\ ~t.early_stop

\* C1 as stated: once early_stop is true, a further call with any loss leaves
\* best_loss, counter and early_stop unchanged.
C1_StoppedCallIsNoOp ==
    [][(Called /\ early_stopping.early_stop) =>
           /\ early_stopping'.best_loss = early_stopping.best_loss
           /\ early_stopping'.counter = early_stopping.counter
           /\ early_stopping'.early_stop = early_stopping.early_stop]_vars

\* C1 amended: once early_stop is true, a further call keeps early_stop true and
\* keeps patience and delta, but it is not a no-op: a loss v > best_loss - delta
\* still increments counter, any other loss replaces best_loss and resets
\* counter to 0.
C1_StoppedStaysStopped ==
    [][(Called /\ early_stopping.early_stop) =>
           /\ early_stopping'.early_stop
           /\ early_stopping'.patience = early_stopping.patience
           /\ early_stopping'.delta = early_stopping.delta
           /\ IF LastLoss > early_stopping.best_loss - early_stopping.delta
              THEN /\ early_stopping'.counter = early_stopping.counter + 1
                   /\ early_stopping'.best_loss = early_stopping.best_loss
              ELSE /\ early_stopping'.counter = 0
                   /\ early_stopping'.best_loss = LastLoss]_vars

\* a stopped monitor that has been called again: its counter has left the value
\* (patience) at which it stopped
C1_Witness ==
    /\ pc = "monitor"
    /\ early_stopping.early_stop
    /\ early_stopping.counter # early_stopping.patience

\* C2: every call of a monitor that has not stopped changes the state exactly
\* as the three-case rule says, and leaves patience and delta alone.
C2_ThreeCaseRule ==
    [][(Called /\ ~early_stopping.early_stop) =>
           RuleHolds(early_stopping, LastLoss, early_stopping')]_vars

\* a monitor that went through all three cases: first record, an improvement,
\* and a non-improving call that stopped it
C2_Witness ==
    /\ pc = "monitor"
    /\ Len(calls) >= 3
    /\ early_stopping.best_loss # None
    /\ early_stopping.best_loss < calls[1]
    /\ early_stopping.early_stop

\* C3: with delta >= 0 the recorded best_loss, once set, never increases.
C3_BestLossNonIncreasing ==
    [][(early_stopping.delta >= 0 /\ early_stopping.best_loss # None) =>
           /\ early_stopping'.best_loss # None
           /\ early_stopping'.best_loss <= early_stopping.best_loss]_vars

\* best_loss was lowered twice with a positive delta
C3_Witness ==
    /\ pc = "monitor"
    /\ early_stopping.delta > 0
    /\ Len(calls) >= 3
    /\ calls[2] < calls[1]
    /\ early_stopping.best_loss # None
    /\ early_stopping.best_loss < calls[2]

\* The loss recorded as best after the calls s, by the rule of the specification.
RECURSIVE RefBest(_, _)
RefBest(s, d) ==
    IF Len(s) = 0 THEN None
    ELSE LET b == RefBest(SubSeq(s, 1, Len(s) - 1), d)
             v == s[Len(s)]
         IN  IF b = None THEN v
             ELSE IF v > b - d THEN b ELSE v

\* call i of s was a check without improvement
NonImproving(s, d, i) ==
    /\ i >= 2
    /\ s[i] > RefBest(SubSeq(s, 1, i - 1), d) - d

\* the calls so far are a first call followed only by non-improving values
NonImprovingRun ==
    /\ Len(calls) >= 1
    /\ \A i \in 2..Len(calls) : calls[i] > calls[1] - early_stopping.delta

\* C4: after a first call and k consecutive non-improving calls, early_stop is
\* true iff k >= patience; and whenever early_stop is true, some patience
\* consecutive calls were all non-improving.
C4_StopsAtPatience ==
    /\ NonImprovingRun =>
           (early_stopping.early_stop <=> Len(calls) - 1 >= early_stopping.patience)
    /\ early_stopping.early_stop =>
           \E j \in 1..Len(calls) :
               /\ j - early_stopping.patience >= 1
               /\ \A i \in (j - early_stopping.patience + 1)..j :
                      NonImproving(calls, early_stopping.delta, i)

\* a monitor of patience >= 2 stopped by exactly patience non-improving calls
C4_Witness ==
    /\ pc = "monitor"
    /\ NonImprovingRun
    /\ early_stopping.patience >= 2
    /\ Len(calls) = early_stopping.patience + 1
    /\ early_stopping.early_stop

StrictlyDecreasing(s) == \A i \in 1..(Len(s) - 1) : s[i + 1] < s[i]
DecreasingBy(s, d) == \A i \in 1..(Len(s) - 1) : s[i + 1] <= s[i] - d

\* C5 as stated: for patience > 0 and delta >= 0, a strictly decreasing
\* sequence of losses never sets early_stop.
C5_DecreasingNeverStops ==
    (/\ early_stopping.patience > 0
     /\ early_stopping.delta >= 0
     /\ StrictlyDecreasing(calls)) => ~early_stopping.early_stop

\* C5 amended: for patience > 0 and delta >= 0, a strictly decreasing sequence
\* in which every loss is lower than the one before by at least delta never
\* sets early_stop.
C5_DecreasingByDeltaNeverStops ==
    (/\ early_stopping.patience > 0
     /\ early_stopping.delta >= 0
     /\ StrictlyDecreasing(calls)
     /\ DecreasingBy(calls, early_stopping.delta)) => ~early_stopping.early_stop

\* a long strictly decreasing sequence fed to a monitor with delta > 0, patience 1
C5_Witness ==
    /\ pc = "monitor"
    /\ early_stopping.patience = 1
    /\ early_stopping.delta > 0
    /\ Len(calls) >= 4
    /\ StrictlyDecreasing(calls)
    /\ DecreasingBy(calls, early_stopping.delta)
    /\ ~early_stopping.early_stop

\* C6: with delta = 0 a loss equal to best_loss resets counter to 0 (it is not
\* counted as stagnation), so a monitor fed only equal losses keeps counter 0
\* and never stops.
C6_EqualityIsImprovement ==
    /\ [][(/\ Called
           /\ early_stopping.delta = 0
           /\ early_stopping.best_loss # None
           /\ LastLoss = early_stopping.best_loss) =>
              /\ early_stopping'.counter = 0
              /\ early_stopping'.best_loss = LastLoss
              /\ early_stopping'.early_stop = early_stopping.early_stop]_vars
    /\ [](/\ early_stopping.delta = 0
          /\ \A i \in 1..Len(calls) : calls[i] = calls[1]
          => early_stopping.counter = 0 /\ ~early_stopping.early_stop)

\* patience = 2, delta = 0, three equal losses: still tracking, counter 0
C6_Witness ==
    /\ pc = "monitor"
    /\ early_stopping.patience = 2
    /\ early_stopping.delta = 0
    /\ Len(calls) = 3
    /\ calls[1] = 1 /\ calls[2] = 1 /\ calls[3] = 1
    /\ early_stopping.counter = 0
    /\ ~early_stopping.early_stop

----------------------------------------------------------------------------
(* Properties of trial selection and of the search *)

ConsideredLosses == [i \in 1..Len(considered) |-> considered[i].loss]

\* the trial just compared by the callback in this step
Compared == considered' # considered
LastTrial == considered'[Len(considered')]

IsMinimumOfConsidered(l) ==
    /\ \E i \in 1..Len(considered) : considered[i].loss = l
    /\ \A i \in 1..Len(considered) : l <= considered[i].loss

\* C7: once trials have been compared, best_model_path and the study's
\* best_model_path attribute name the checkpoint of a compared trial whose loss
\* is the minimum of all compared trials; the model finally loaded is that
\* checkpoint; and best_validation_loss never increases.
C7_GlobalBestIsMinimum ==
    /\ [](Len(considered) > 0 =>
            /\ study_user_attrs = best_model_path
            /\ \E i \in 1..Len(considered) :
                   /\ considered[i].path = best_model_path
                   /\ IsMinimumOfConsidered(considered[i].loss))
    /\ [](pc = "done" =>
            \E i \in 1..Len(considered) :
                /\ considered[i].path = loaded_model
                /\ IsMinimumOfConsidered(considered[i].loss))
    /\ [][best_validation_loss' <= best_validation_loss]_vars

\* three trials, the second the best and the third worse: the second trial's
\* checkpoint is the one loaded at the end
C7_Witness ==
    /\ pc = "done"
    /\ Len(considered) = 3
    /\ considered[2].loss < considered[1].loss
    /\ considered[3].loss > considered[2].loss
    /\ loaded_model = TmpModelPath(1)
    /\ best_model_path = TmpModelPath(1)

\* the comparison of the callback as the specification words it: a strictly
\* lower loss replaces the recorded loss and checkpoint and is reported, any
\* other loss (an equal one included) changes nothing
ConsiderStep ==
    Compared =>
        IF LastTrial.loss < best_validation_loss
        THEN /\ best_validation_loss' = LastTrial.loss
             /\ best_model_path' = LastTrial.path
             /\ study_user_attrs' = LastTrial.path
             /\ printed' = Append(printed, LastTrial.number)
        ELSE UNCHANGED <<best_validation_loss, best_model_path,
                         study_user_attrs, printed>>

\* the losses 0.5, 0.3, 0.4, 0.2 (in tenths) change the record at calls 1, 2
\* and 4 only
ConsiderScenario == ConsideredLosses = <<5, 3, 4, 2>> => printed = <<0, 1, 3>>

\* C8 as stated: the global best is initialized to +infinity; a strictly lower
\* loss replaces the record and is reported, another loss changes nothing; the
\* scenario's record changes at calls 1, 2 and 4.
C8_ConsiderFromInfinity ==
    /\ [](trial_number = 0 => best_validation_loss = Inf)
    /\ [][ConsiderStep]_vars
    /\ []ConsiderScenario

\* C8 amended: the global best is initialized to 1000000, not to +infinity;
\* the rest as stated.
C8_ConsiderFromInitialBest ==
    /\ [](trial_number = 0 => best_validation_loss = 1000000)
    /\ [][ConsiderStep]_vars
    /\ []ConsiderScenario

\* the losses 5, 3, 4, 2 have been considered: the record is the fourth trial
C8_Witness ==
    /\ pc = "select"
    /\ ConsideredLosses = <<5, 3, 4, 2>>
    /\ printed = <<0, 1, 3>>
    /\ best_validation_loss = 2
    /\ best_model_path = TmpModelPath(3)

\* the monitor after the calls s, starting from a new EarlyStopping(PATIENCE)
RECURSIVE Replay(_)
Replay(s) ==
    IF Len(s) = 0 THEN EarlyStopping(PATIENCE, 0)
    ELSE EarlyStopping__call__(Replay(SubSeq(s, 1, Len(s) - 1)), s[Len(s)])

\* C9: a trial starts with a new monitor (no best loss, counter 0, not
\* stopped); the monitor has been called once per executed epoch, with that
\* epoch's validation loss; its state depends on this trial's losses only.
C9_MonitorPerTrial ==
    /\ (pc = "epoch" /\ epoch = 0) =>
           /\ early_stopping.best_loss = None
           /\ early_stopping.counter = 0
           /\ ~early_stopping.early_stop
           /\ calls = <<>>
    /\ pc \in {"epoch", "return", "callback"} =>
           /\ calls = val_losses
           /\ early_stopping = Replay(val_losses)
    /\ pc = "epoch" => Len(calls) = epoch
    /\ pc = "return" => Len(calls) = epoch + 1

\* the second trial, two epochs in, its monitor holding only what this trial's
\* two losses put there
C9_Witness ==
    /\ pc = "epoch"
    /\ trial_number = 1
    /\ epoch = 2
    /\ early_stopping.counter = 1
    /\ early_stopping.best_loss = val_losses[1]

\* C10: a completed trial that never saved a checkpoint has no best_model_path;
\* given to the callback it raises (the search ends in error) and the global
\* best record is left as it was.
C10_MissingCheckpointIsError ==
    /\ [](pc = "callback" => (user_attrs.best_model_path = None <=> saves = {}))
    /\ [][(pc = "callback" /\ user_attrs.best_model_path = None) =>
            /\ pc' = "error"
            /\ UNCHANGED <<best_validation_loss, best_model_path,
                           study_user_attrs, considered, printed>>]_vars
    /\ [][pc = "error" => pc' = "error"]_vars

\* the second trial never saved a checkpoint: the search stopped with an error
\* and the record still names the first trial
C10_Witness ==
    /\ pc = "error"
    /\ trial_number = 1
    /\ saves = {}
    /\ Len(val_losses) > 0
    /\ best_model_path = TmpModelPath(0)
    /\ Len(considered) = 1

----------------------------------------------------------------------------
(* Properties of the metric functions *)

\* the confusion counts of labels and scores, a score counted positive iff it
\* is above 0.5
CountWhere(label, positive) ==
    Cardinality({i \in DOMAIN y_true :
                    y_true[i] = label /\ ((y_pred[i] > Threshold) <=> positive)})

\* C11: for non-empty labels and scores of equal length the accuracy returned
\* by calculate_metrics and calculate_metrics_4 is (TP+TN)/(TP+TN+FP+FN), a
\* score being positive iff it is above 0.5 (exactly 0.5 is negative); labels
\* 0,0,1,1 with increasing scores, two of them not above 0.5, give 1; labels
\* 0,1 with the high score on the 0 give 0.
C11_Accuracy ==
    metrics.status = "ok" =>
        LET tp == CountWhere(1, TRUE)
            tn == CountWhere(0, FALSE)
            fp == CountWhere(0, TRUE)
            fn == CountWhere(1, FALSE)
        IN  /\ metrics.accuracy.den # 0
            /\ metrics.accuracy.num * (tp + tn + fp + fn)
                   = (tp + tn) * metrics.accuracy.den
            /\ (y_true = <<0, 0, 1, 1>> /\ y_pred = <<0, 1, 2, 3>>) =>
                   metrics.accuracy.num = metrics.accuracy.den
            /\ (y_true = <<0, 1>> /\ y_pred = <<3, 0>>) => metrics.accuracy.num = 0

\* calculate_metrics_4 on labels 0,0,1,1 with scores 0, 0.5, 1, 1.5: the score
\* of exactly 0.5 counted negative, accuracy 1
C11_Witness ==
    /\ metrics.status = "ok"
    /\ metrics.fn = "calculate_metrics_4"
    /\ y_true = <<0, 0, 1, 1>>
    /\ y_pred = <<0, 1, 2, 3>>
    /\ metrics.accuracy = Frac(4, 4)

\* The operating points of the full ROC sweep as the specification words it:
\* one per distinct score taken as threshold (a sample is positive when its
\* score is at least the threshold), and the point above every score, where
\* nothing is positive.
SweepThresholds == {y_pred[i] : i \in DOMAIN y_pred} \cup {Inf}
Positives == Cardinality({i \in DOMAIN y_true : y_true[i] = 1})
Negatives == Cardinality({i \in DOMAIN y_true : y_true[i] = 0})
SweepFP(th) == Cardinality({i \in DOMAIN y_true : y_true[i] = 0 /\ y_pred[i] >= th})
SweepFN(th) == Cardinality({i \in DOMAIN y_true : y_true[i] = 1 /\ y_pred[i] < th})
\* |FNR - FPR| and FPR + FNR at a threshold, both times Positives * Negatives
SweepGap(th) == Abs(SweepFN(th) * Negatives - SweepFP(th) * Positives)
SweepSum(th) == SweepFN(th) * Negatives + SweepFP(th) * Positives

\* C12: the EER returned is the mean of FPR and FNR at an operating point of
\* the sweep that minimizes |FNR - FPR| over all operating points, and lies in
\* [0, 1]; labels 0,0,1,1 with increasing scores give 0, labels 0,1 with the
\* high score on the 0 give 1.
C12_EERAtMinimalGap ==
    eer.status = "ok" =>
        /\ \E th \in SweepThresholds :
               /\ \A other \in SweepThresholds : SweepGap(th) <= SweepGap(other)
               /\ eer.eer.num * (2 * Positives * Negatives) = SweepSum(th) * eer.eer.den
        /\ 0 <= eer.eer.num /\ eer.eer.num <= eer.eer.den
        /\ (y_true = <<0, 0, 1, 1>> /\ y_pred = <<0, 1, 2, 3>>) => eer.eer.num = 0
        /\ (y_true = <<0, 1>> /\ y_pred = <<3, 0>>) => eer.eer.num = eer.eer.den

\* the points of roc_curve attaining the minimal gap
TiedPoints(r) ==
    {k \in 1..Len(r.points) :
        \A j \in 1..Len(r.points) : GapTimesPN(r, k) <= GapTimesPN(r, j)}

\* C13 as stated: among the points attaining the minimal |FNR - FPR| the first
\* index is selected, and it is the point of lowest threshold among them.
C13_FirstIndexLowestThreshold ==
    eer.status = "ok" =>
        /\ eer.eer_threshold_index \in TiedPoints(eer)
        /\ \A k \in TiedPoints(eer) :
               /\ eer.eer_threshold_index <= k
               /\ eer.points[eer.eer_threshold_index].threshold
                      <= eer.points[k].threshold

\* C13 amended: among the points attaining the minimal |FNR - FPR| the first
\* index is selected, and it is the point of highest threshold among them
\* (roc_curve's thresholds decrease along the sweep).
C13_FirstIndexHighestThreshold ==
    eer.status = "ok" =>
        /\ eer.eer_threshold_index \in TiedPoints(eer)
        /\ \A k \in TiedPoints(eer) :
               /\ eer.eer_threshold_index <= k
               /\ eer.points[eer.eer_threshold_index].threshold
                      >= eer.points[k].threshold

\* two points of finite threshold tie for the minimal gap; the first is taken
C13_Witness ==
    /\ eer.status = "ok"
    /\ Cardinality(TiedPoints(eer)) >= 2
    /\ eer.eer_threshold_index >= 2
    /\ \A k \in TiedPoints(eer) : eer.eer_threshold_index <= k

\* the ordinary number 0.0
IsZero(x) == x.num = 0 /\ x.den > 0

NoPositivePrediction == \A i \in DOMAIN y_pred : ~(y_pred[i] > Threshold)
NoPositiveLabel == \A i \in DOMAIN y_true : y_true[i] = 0

\* C14 as stated: when precision or recall has a zero denominator,
\* calculate_metrics_4 fails or returns a NaN for it, not an ordinary number.
C14_ZeroDenominatorFlagged ==
    (/\ metrics.status = "ok"
     /\ metrics.fn = "calculate_metrics_4"
     /\ (NoPositivePrediction \/ NoPositiveLabel)) =>
        \/ (NoPositivePrediction /\ metrics.precision.num = NaN)
        \/ (NoPositiveLabel /\ metrics.recall.num = NaN)

\* C14 amended: when precision or recall has a zero denominator,
\* calculate_metrics_4 does not fail and returns the ordinary number 0.0 for
\* that metric (and for the F1 score), the warning being suppressed.
C14_ZeroDenominatorIsZero ==
    (metrics.status # "none" /\ metrics.fn = "calculate_metrics_4") =>
        /\ metrics.status = "ok"
        /\ NoPositivePrediction =>
               (IsZero(metrics.precision) /\ IsZero(metrics.f1_score))
        /\ NoPositiveLabel =>
               (IsZero(metrics.recall) /\ IsZero(metrics.f1_score))

\* positive labels but no score above 0.5: precision came back as 0
C14_Witness ==
    /\ metrics.status = "ok"
    /\ metrics.fn = "calculate_metrics_4"
    /\ NoPositivePrediction
    /\ ~NoPositiveLabel
    /\ Len(y_true) >= 2
    /\ metrics.precision = Frac(0, 1)

BothClasses ==
    /\ \E i \in DOMAIN y_true : y_true[i] = 0
    /\ \E i \in DOMAIN y_true : y_true[i] = 1

\* C15: calculate_eer returns a value only for non-empty labels holding both
\* classes; on empty input and on labels of one class it raises an error and
\* returns nothing.
C15_EERFailsOnDegenerateInput ==
    eer # NotCalled =>
        /\ eer.status = "ok" <=> (Len(y_true) > 0 /\ BothClasses)
        /\ eer.status # "ok" => (eer = [status |-> "ValueError"] /\ pc = "error")
        /\ eer.status = "ok" => (eer.eer.num # NaN /\ eer.eer.den > 0)

\* three samples, all of the positive class: calculate_eer raised
C15_Witness ==
    /\ pc = "error"
    /\ Len(y_true) = 3
    /\ \A i \in DOMAIN y_true : y_true[i] = 1
    /\ eer = [status |-> "ValueError"]

\* the transform kept the order of the scores
OrderKept ==
    \A i, j \in DOMAIN y_pred :
        (y_pred[i] < y_pred[j]) <=> (y_transformed[i] < y_transformed[j])

\* the transform reversed the order of the scores
OrderReversed ==
    \A i, j \in DOMAIN y_pred :
        (y_pred[i] < y_pred[j]) <=> (y_transformed[i] > y_transformed[j])

\* C16 as stated: under any strictly monotonic transform of the scores,
\* increasing or decreasing, the EER is unchanged wherever it is defined.
C16_EERInvariantMonotonic ==
    (pc = "transformed" /\ eer.status = "ok" /\ (OrderKept \/ OrderReversed)) =>
        /\ eer_transformed.status = "ok"
        /\ FracEq(eer_transformed.eer, eer.eer)

\* C16 amended: under any strictly increasing transform of the scores the EER
\* is unchanged wherever it is defined.
C16_EERInvariantIncreasing ==
    (pc = "transformed" /\ eer.status = "ok" /\ OrderKept) =>
        /\ eer_transformed.status = "ok"
        /\ FracEq(eer_transformed.eer, eer.eer)

\* three distinct scores moved to unevenly spaced higher values, the EER kept
C16_Witness ==
    /\ pc = "transformed"
    /\ eer.status = "ok"
    /\ Len(y_pred) = 3
    /\ y_pred[1] < y_pred[2] /\ y_pred[2] < y_pred[3]
    /\ OrderKept
    /\ y_transformed[2] - y_transformed[1] # y_transformed[3] - y_transformed[2]
    /\ y_transformed # y_pred
    /\ FracEq(eer_transformed.eer, eer.eer)

----------------------------------------------------------------------------
(* Properties of the epoch loop *)

\* the epochs run so far whose validation loss is a number
NumberEpochs == {e \in 1..Len(val_losses) : val_losses[e] # NaN}

\* the epochs whose validation loss is strictly lower than that of every
\* earlier epoch
NewMinimumEpochs ==
    {e \in NumberEpochs : \A j \in NumberEpochs : j < e => val_losses[e] < val_losses[j]}

\* C17: within a trial best_trial_loss is the minimum validation loss of the
\* epochs run so far (inf before the first one; an epoch whose loss is NaN
\* compares with nothing and is passed over); the checkpoint is written
\* exactly at the epochs whose loss is strictly lower than every earlier one,
\* so the last write is at the first epoch attaining the minimum; and the
\* value recorded as best_val_loss and returned is that minimum.
C17_BestTrialLoss ==
    /\ best_trial_loss = IF NumberEpochs = {} THEN Inf
                         ELSE CHOOSE m \in {val_losses[e] : e \in NumberEpochs} :
                                  \A e \in NumberEpochs : m <= val_losses[e]
    /\ saves = NewMinimumEpochs
    /\ \A e \in saves :
           (\A other \in saves : other <= e) =>
               /\ val_losses[e] = best_trial_loss
               /\ \A j \in 1..(e - 1) : val_losses[j] # best_trial_loss
    /\ (user_attrs.best_model_path # None) <=> (saves # {})
    /\ pc = "callback" =>
           /\ user_attrs.best_val_loss = best_trial_loss
           /\ TrialOutcome(trial_number, user_attrs).loss = best_trial_loss

\* a trial has returned after the minimum was attained twice: the checkpoint
\* was written at epochs 1 and 2 only, the later equal loss did not overwrite
C17_Witness ==
    /\ pc = "callback"
    /\ Len(val_losses) >= 4
    /\ val_losses[1] = 2 /\ val_losses[2] = 1 /\ val_losses[4] = 1
    /\ saves = {1, 2}
    /\ user_attrs.best_val_loss = 1

\* C18: every trial's epoch loop terminates: it runs at most EPOCHS epochs,
\* every epoch is one save decision and one monitor call, the loop is left as
\* soon as the monitor has set early_stop, and nothing is trained, saved or
\* monitored in that trial afterwards.
C18_EpochLoopTerminates ==
    /\ [](/\ Len(val_losses) <= EPOCHS
          /\ Len(calls) = Len(val_losses)
          /\ early_stopping.early_stop => pc # "epoch")
    /\ [][early_stopping.early_stop =>
             (val_losses' = val_losses /\ calls' = calls /\ saves' = saves)]_vars
    /\ (pc = "epoch") ~> (pc = "return")

\* the monitor stopped a trial before EPOCHS epochs were run
C18_Witness ==
    /\ pc = "return"
    /\ early_stopping.early_stop
    /\ Len(val_losses) < EPOCHS
    /\ Len(calls) = Len(val_losses)

====
